---- MODULE Spec2Model ----
(***************************************************************************)
(* async_ip_rotator: the IpRotator lifecycle manager (IpRotator.py) and    *)
(* the ClientSession request router (ClientSession.py).                    *)
(*                                                                         *)
(* The asyncio event loop is modelled as interleaving: every task created  *)
(* with asyncio.create_task owns a position (pc) and takes one step per    *)
(* provider call; the calling coroutine is suspended in `await             *)
(* asyncio.gather` until the gather future resolves.               *)
(* asyncio.gather is called without return_exceptions, so the first task   *)
(* that raises resolves the future with that exception while the other     *)
(* tasks keep running.  `tasks` holds the tasks of the latest gather; the   *)
(* caller lets the tasks an abandoned gather left behind run to completion *)
(* before its next __aenter__ or __aexit__, and finished tasks are dropped. *)
(* The AWS API Gateway control plane is the environment: every call is     *)
(* answered nondeterministically.                                          *)
(***************************************************************************)
EXTENDS Integers, Sequences, FiniteSets, TLC

----------------------------------------------------------------------------
(* Bounds of the model *)

MaxRegions == 2
MaxRateLimited == 1
MaxCalls == 2
MaxRequests == 4
MaxPages == 2
MaxPageItems == 2
MaxListCalls == 3
MaxInflight == 3

----------------------------------------------------------------------------
(* Program constants *)

DEFAULT_REGIONS ==
  << "us-east-1", "us-east-2", "us-west-1", "us-west-2", "eu-west-1",
     "eu-west-2", "eu-west-3", "eu-central-1", "ca-central-1" >>

ToolName == "Async IP Rotator"

\* api.id before create_api has answered: _API(None, region, self.target)
NoneId == 0

\* next_token = None
NoneToken == << >>

----------------------------------------------------------------------------
(* Inputs *)

\* the region lists a caller passes: non-empty, without duplicates.  The code
\* never looks into a region name, so the first n default regions stand for
\* every list of n regions.
RegionSets == { SubSeq(DEFAULT_REGIONS, 1, n) : n \in 1..MaxRegions }

\* a name the provisioner never gives a gateway
OtherName == "Other API"

\* what one region holds, as the provider pages it: the Name of every gateway
PageContents ==
  UNION { [1..n -> {ToolName, OtherName}] : n \in 0..MaxPageItems }

Listings == UNION { [1..p -> PageContents] : p \in 1..MaxPages }

----------------------------------------------------------------------------
(* State *)

VARIABLES
  regions,    \* self.regions
  apis,       \* self.apis: sequence of _API records [id, region]
  apis_iter,  \* self.apis_iter: None or an itertools.cycle
  tasks,      \* the asyncio tasks of the latest gather, in creation order,
              \* and after them the router requests in flight
  gatherExc,  \* first task that raised while the caller awaits gather (0: none)
  mainPc,     \* the caller's position
  ret,        \* how the caller's last call ended
  nextId,     \* provider: next ApiId to hand out
  delCalls,   \* provider: the ApiIds delete_api has been called with
  handed,     \* records returned by next() on the current cursor
  nCalls,     \* __aenter__ and __aexit__ calls so far
  sweep       \* clear_existing_apis: its position and locals

rotatorVars == << regions, apis, apis_iter >>
loopVars == << tasks, gatherExc, mainPc, ret, nCalls >>
providerVars == << nextId, delCalls >>

vars == << rotatorVars, loopVars, providerVars, handed, sweep >>

----------------------------------------------------------------------------
(* _API *)

API(id, region) == [id |-> id, region |-> region]

\* _API.host
host(api) == << api.id, "execute-api", api.region, "amazonaws.com" >>

----------------------------------------------------------------------------
(* itertools.cycle *)

NoneIter == [live |-> FALSE, items |-> << >>, pos |-> 0]

cycle(xs) == [live |-> TRUE, items |-> xs, pos |-> 0]

cycle_value(c) == c.items[c.pos + 1]

\* a cursor that stays on the last record instead of wrapping
cycle_advance_nowrap(c) ==
  [c EXCEPT !.pos = IF c.pos + 1 < Len(c.items) THEN c.pos + 1 ELSE c.pos]

cycle_advance(c) == [c EXCEPT !.pos = (c.pos + 1) % Len(c.items)]

----------------------------------------------------------------------------
(* Tasks and asyncio.gather *)

NewTask(kind, api) ==
  [ kind |-> kind, region |-> api.region, id |-> api.id,
    pc |-> IF kind = "create" THEN "create_api" ELSE "delete_api",
    last |-> "none", calls |-> 0, sleeps |-> 0, limited |-> 0, called |-> {} ]

Finished(t) == t.pc \in {"done", "failed"}

\* no task of an earlier gather is still running
Quiescent == \A i \in 1..Len(tasks) : Finished(tasks[i])

\* a task raised: asyncio.gather's future takes the first exception only
NoteException(i) ==
  IF mainPc # "idle" /\ gatherExc = 0 THEN i ELSE gatherExc

\* results in the order the provider answered (ascending ApiId), not task order
GatherResults_completion(ts) ==
  [ k \in 1..Len(ts) |->
      LET i == CHOOSE j \in 1..Len(ts) :
                 Cardinality({ m \in 1..Len(ts) : ts[m].id < ts[j].id }) = k - 1
      IN  API(ts[i].id, ts[i].region) ]

\* the value `await asyncio.gather` returns: one result per task, in the
\* order the tasks were passed, whatever the order they completed in
GatherResults(ts) == [ k \in 1..Len(ts) |-> API(ts[k].id, ts[k].region) ]

\* the exception `await asyncio.gather` raises: the first one only
GatherException(first) == {first}

\* a gather that ends the tasks still running when one raises
Abandon_cancel(ts) ==
  [ k \in 1..Len(ts) |->
      IF Finished(ts[k]) THEN ts[k] ELSE [ts[k] EXCEPT !.pc = "failed"] ]

\* what gather's exception does to the tasks still running: nothing, they are
\* not cancelled
Abandon(ts) == ts

\* how a call ended, and where its tasks stood at that moment
Returned(op, ok, errs) ==
  [ op |-> op, ok |-> ok, errs |-> errs, target |-> << >>,
    succeeded |-> { i \in 1..Len(tasks) : tasks[i].pc = "done" },
    pending |-> { i \in 1..Len(tasks) : ~Finished(tasks[i]) } ]

NoReturn ==
  [ op |-> "none", ok |-> TRUE, errs |-> {}, target |-> << >>,
    succeeded |-> {}, pending |-> {} ]

\* super()._request(method, url): the request went out to `target`
Forwarded(target) == [NoReturn EXCEPT !.op = "request", !.target = target]

----------------------------------------------------------------------------
(* Provider answers *)

CreateAnswers == {"ok", "error"}
StageAnswers == {"ok", "ConflictException", "error"}
DeleteAnswers == {"ok", "TooManyRequestsException", "error"}
ListAnswers == {"ok", "error"}

----------------------------------------------------------------------------
(* IpRotator.__init__ *)

NoSweep ==
  [ pc |-> "idle", region |-> 0, listing |-> << >>, last |-> "none",
    res |-> [Items |-> << >>, NextToken |-> << >>], next_token |-> NoneToken,
    apis |-> << >>, k |-> 0, reaper |-> NewTask("delete", API(NoneId, "")),
    listCalls |-> << >>, deleted |-> << >> ]

Init ==
  /\ regions \in RegionSets
  /\ apis = << >>
  /\ apis_iter = NoneIter
  /\ tasks = << >>
  /\ gatherExc = 0
  /\ mainPc = "idle"
  /\ ret = NoReturn
  /\ nextId = 1
  /\ delCalls = {}
  /\ handed = << >>
  /\ nCalls = 0
  /\ sweep = NoSweep

\* the `regions` argument of __init__: None (the default) or a list
NoneArg == [none |-> TRUE, list |-> << >>]
ListArg(xs) == [none |-> FALSE, list |-> xs]

RegionArgs == {NoneArg, ListArg(<< >>)} \cup { ListArg(xs) : xs \in RegionSets }

\* bool(regions): None and the empty list are false
Truthy(arg) == ~arg.none /\ Len(arg.list) > 0

\* an __init__ that tests `regions is not None`
init_regions_not_none(arg) == IF ~arg.none THEN arg.list ELSE DEFAULT_REGIONS

\* line 82
init_regions(arg) == IF Truthy(arg) THEN arg.list ELSE DEFAULT_REGIONS

\* the caller is about to construct an IpRotator; `regions` holds the
\* argument it passes
InitNew ==
  /\ regions \in RegionArgs
  /\ apis = << >>
  /\ apis_iter = NoneIter
  /\ tasks = << >>
  /\ gatherExc = 0
  /\ mainPc = "new"
  /\ ret = NoReturn
  /\ nextId = 1
  /\ delCalls = {}
  /\ handed = << >>
  /\ nCalls = 0
  /\ sweep = NoSweep

\* lines 80-82
Construct ==
  /\ mainPc = "new"
  /\ regions' = init_regions(regions)
  /\ apis' = << >>
  /\ apis_iter' = NoneIter
  /\ mainPc' = "idle"
  /\ ret' = [NoReturn EXCEPT !.op = "init"]
  /\ UNCHANGED << tasks, gatherExc, nCalls, providerVars, handed, sweep >>

----------------------------------------------------------------------------
(* IpRotator.__aenter__ *)

\* lines 92-97: one task per region, then suspend in gather
Activate ==
  /\ mainPc = "idle"
  /\ nCalls < MaxCalls
  /\ Quiescent
  /\ tasks' = [ k \in 1..Len(regions) |-> NewTask("create", API(NoneId, regions[k])) ]
  /\ gatherExc' = 0
  /\ mainPc' = "aenter_wait"
  /\ ret' = NoReturn
  /\ nCalls' = nCalls + 1
  /\ UNCHANGED << rotatorVars, providerVars, handed, sweep >>

\* lines 97-100: gather resolved with all results
AenterReturn ==
  /\ mainPc = "aenter_wait"
  /\ gatherExc = 0
  /\ \A i \in 1..Len(tasks) : tasks[i].pc = "done"
  /\ apis' = GatherResults(tasks)
  /\ apis_iter' = cycle(apis')
  /\ handed' = << >>
  /\ ret' = Returned("aenter", TRUE, {})
  /\ mainPc' = "idle"
  /\ UNCHANGED << regions, tasks, gatherExc, nCalls, providerVars, sweep >>

\* an __aenter__ that keeps the records of the tasks that had returned
AenterRaise_partial ==
  /\ mainPc = "aenter_wait"
  /\ gatherExc # 0
  /\ apis' = SelectSeq(GatherResults(tasks), LAMBDA a : a.id # NoneId)
  /\ apis_iter' = IF apis' = << >> THEN NoneIter ELSE cycle(apis')
  /\ ret' = Returned("aenter", FALSE, GatherException(gatherExc))
  /\ tasks' = Abandon(tasks)
  /\ gatherExc' = 0
  /\ mainPc' = "idle"
  /\ UNCHANGED << regions, nCalls, providerVars, handed, sweep >>

\* line 97: gather resolved with an exception, which leaves __aenter__
AenterRaise ==
  /\ mainPc = "aenter_wait"
  /\ gatherExc # 0
  /\ ret' = Returned("aenter", FALSE, GatherException(gatherExc))
  /\ tasks' = Abandon(tasks)
  /\ gatherExc' = 0
  /\ mainPc' = "idle"
  /\ UNCHANGED << rotatorVars, nCalls, providerVars, handed, sweep >>

----------------------------------------------------------------------------
(* IpRotator._create_api *)

\* lines 169-180
CreateApi(i, ans) ==
  /\ tasks[i].kind = "create"
  /\ tasks[i].pc = "create_api"
  /\ \/ /\ ans = "ok"
        /\ tasks' = [tasks EXCEPT ![i].id = nextId, ![i].pc = "create_stage",
                                  ![i].last = ans]
        /\ nextId' = nextId + 1
        /\ UNCHANGED gatherExc
     \/ /\ ans = "error"
        /\ tasks' = [tasks EXCEPT ![i].pc = "failed", ![i].last = ans]
        /\ gatherExc' = NoteException(i)
        /\ UNCHANGED nextId
  /\ UNCHANGED << rotatorVars, mainPc, ret, nCalls, delCalls, handed, sweep >>

\* a _create_api without the except clause of lines 187-188
CreateStage_strict(i, ans) ==
  /\ tasks[i].kind = "create"
  /\ tasks[i].pc = "create_stage"
  /\ \/ /\ ans = "ok"
        /\ tasks' = [tasks EXCEPT ![i].pc = "create_deployment", ![i].last = ans]
        /\ UNCHANGED gatherExc
     \/ /\ ans \in {"ConflictException", "error"}
        /\ tasks' = [tasks EXCEPT ![i].pc = "failed", ![i].last = ans]
        /\ gatherExc' = NoteException(i)
  /\ UNCHANGED << rotatorVars, mainPc, ret, nCalls, providerVars, handed, sweep >>

\* lines 182-188
CreateStage(i, ans) ==
  /\ tasks[i].kind = "create"
  /\ tasks[i].pc = "create_stage"
  /\ \/ /\ ans \in {"ok", "ConflictException"}
        /\ tasks' = [tasks EXCEPT ![i].pc = "create_deployment", ![i].last = ans]
        /\ UNCHANGED gatherExc
     \/ /\ ans = "error"
        /\ tasks' = [tasks EXCEPT ![i].pc = "failed", ![i].last = ans]
        /\ gatherExc' = NoteException(i)
  /\ UNCHANGED << rotatorVars, mainPc, ret, nCalls, providerVars, handed, sweep >>

\* lines 190-195
CreateDeployment(i, ans) ==
  /\ tasks[i].kind = "create"
  /\ tasks[i].pc = "create_deployment"
  /\ \/ /\ ans = "ok"
        /\ tasks' = [tasks EXCEPT ![i].pc = "done", ![i].last = ans]
        /\ UNCHANGED gatherExc
     \/ /\ ans = "error"
        /\ tasks' = [tasks EXCEPT ![i].pc = "failed", ![i].last = ans]
        /\ gatherExc' = NoteException(i)
  /\ UNCHANGED << rotatorVars, mainPc, ret, nCalls, providerVars, handed, sweep >>

----------------------------------------------------------------------------
(* IpRotator._delete_api *)

\* a Reaper that returns on TooManyRequestsException instead of retrying
ReaperCall_giveup(t, ans) ==
  LET c == [t EXCEPT !.last = ans, !.calls = @ + 1, !.called = @ \cup {t.id}] IN
  IF ans = "ok" THEN [c EXCEPT !.pc = "done"]
  ELSE IF ans = "TooManyRequestsException"
       THEN [c EXCEPT !.pc = "done", !.limited = @ + 1]
       ELSE [c EXCEPT !.pc = "failed"]

\* line 216, and what lines 217-222 make of the answer
ReaperCall(t, ans) ==
  LET c == [t EXCEPT !.last = ans, !.calls = @ + 1, !.called = @ \cup {t.id}] IN
  IF ans = "ok" THEN [c EXCEPT !.pc = "done"]
  ELSE IF ans = "TooManyRequestsException"
       THEN [c EXCEPT !.pc = "sleep", !.limited = @ + 1]
       ELSE [c EXCEPT !.pc = "failed"]

\* a Reaper that does not come back from its sleep
ReaperSleep_stuck(t) == t

\* lines 220-221: asyncio.sleep(5), then the loop again
ReaperSleep(t) == [t EXCEPT !.pc = "delete_api", !.sleeps = @ + 1]

\* the provider stops answering TooManyRequestsException at some point
MayAnswer(t, ans) ==
  ans = "TooManyRequestsException" => t.limited < MaxRateLimited

DeleteApi(i, ans) ==
  /\ tasks[i].kind = "delete"
  /\ tasks[i].pc = "delete_api"
  /\ MayAnswer(tasks[i], ans)
  /\ tasks' = [tasks EXCEPT ![i] = ReaperCall(tasks[i], ans)]
  /\ gatherExc' = IF tasks'[i].pc = "failed" THEN NoteException(i) ELSE gatherExc
  /\ delCalls' = delCalls \cup tasks'[i].called
  /\ UNCHANGED << rotatorVars, mainPc, ret, nCalls, nextId, handed, sweep >>

DeleteSleep(i) ==
  /\ tasks[i].kind = "delete"
  /\ tasks[i].pc = "sleep"
  /\ tasks' = [tasks EXCEPT ![i] = ReaperSleep(tasks[i])]
  /\ UNCHANGED << rotatorVars, gatherExc, mainPc, ret, nCalls, providerVars,
                  handed, sweep >>

----------------------------------------------------------------------------
(* IpRotator.__aexit__ *)

\* an __aexit__ that starts one Reaper per region, whatever the pool holds
Deactivate_per_region ==
  /\ mainPc = "idle"
  /\ nCalls < MaxCalls
  /\ Quiescent
  /\ tasks' = [ k \in 1..Len(regions) |->
                 NewTask("delete", IF k <= Len(apis) THEN apis[k]
                                   ELSE API(NoneId, regions[k])) ]
  /\ gatherExc' = 0
  /\ mainPc' = "aexit_wait"
  /\ ret' = NoReturn
  /\ nCalls' = nCalls + 1
  /\ UNCHANGED << rotatorVars, providerVars, handed, sweep >>

\* lines 105-110: one task per record of self.apis, then suspend in gather
Deactivate ==
  /\ mainPc = "idle"
  /\ nCalls < MaxCalls
  /\ Quiescent
  /\ tasks' = [ k \in 1..Len(apis) |-> NewTask("delete", apis[k]) ]
  /\ gatherExc' = 0
  /\ mainPc' = "aexit_wait"
  /\ ret' = NoReturn
  /\ nCalls' = nCalls + 1
  /\ UNCHANGED << rotatorVars, providerVars, handed, sweep >>

\* lines 110-111: gather resolved with all results
AexitReturn ==
  /\ mainPc = "aexit_wait"
  /\ gatherExc = 0
  /\ \A i \in 1..Len(tasks) : tasks[i].pc = "done"
  /\ apis_iter' = NoneIter
  /\ ret' = Returned("aexit", TRUE, {})
  /\ mainPc' = "idle"
  /\ UNCHANGED << regions, apis, tasks, gatherExc, nCalls, providerVars,
                  handed, sweep >>

\* line 110: gather resolved with an exception, which leaves __aexit__
AexitRaise ==
  /\ mainPc = "aexit_wait"
  /\ gatherExc # 0
  /\ ret' = Returned("aexit", FALSE, GatherException(gatherExc))
  /\ tasks' = Abandon(tasks)
  /\ gatherExc' = 0
  /\ mainPc' = "idle"
  /\ UNCHANGED << rotatorVars, nCalls, providerVars, handed, sweep >>

----------------------------------------------------------------------------
(* ClientSession._request *)

\* the url a request is made for
OriginalUrl == << "original" >>

\* a router that takes a record from the cursor for upgrade requests too
Request_rotate_all(upgrade) ==
  /\ mainPc = "idle"
  /\ \/ /\ upgrade
        /\ apis_iter.live
        /\ Len(handed) < MaxRequests
        /\ apis_iter' = cycle_advance(apis_iter)
        /\ handed' = Append(handed, cycle_value(apis_iter))
        /\ ret' = Forwarded(OriginalUrl)
     \/ /\ upgrade
        /\ ~apis_iter.live
        /\ ret' = Forwarded(OriginalUrl)
        /\ UNCHANGED << apis_iter, handed >>
     \/ /\ ~upgrade
        /\ apis_iter.live
        /\ Len(handed) < MaxRequests
        /\ apis_iter' = cycle_advance(apis_iter)
        /\ handed' = Append(handed, cycle_value(apis_iter))
        /\ ret' = Forwarded(host(cycle_value(apis_iter)))
     \/ /\ ~upgrade
        /\ ~apis_iter.live
        /\ ret' = [NoReturn EXCEPT !.op = "request", !.ok = FALSE]
        /\ UNCHANGED << apis_iter, handed >>
  /\ UNCHANGED << regions, apis, tasks, gatherExc, mainPc, nCalls, providerVars,
                  sweep >>

\* lines 25-26: a websocket upgrade goes out to the url as given; lines
\* 28-33: any other request goes out to the host next() returned, and
\* next(None) raises TypeError before anything is sent
Request(upgrade) ==
  /\ mainPc = "idle"
  /\ \/ /\ upgrade
        /\ ret' = Forwarded(OriginalUrl)
        /\ UNCHANGED << apis_iter, handed >>
     \/ /\ ~upgrade
        /\ apis_iter.live
        /\ Len(handed) < MaxRequests
        /\ apis_iter' = cycle_advance(apis_iter)
        /\ handed' = Append(handed, cycle_value(apis_iter))
        /\ ret' = Forwarded(host(cycle_value(apis_iter)))
     \/ /\ ~upgrade
        /\ ~apis_iter.live
        /\ ret' = [NoReturn EXCEPT !.op = "request", !.ok = FALSE]
        /\ UNCHANGED << apis_iter, handed >>
  /\ UNCHANGED << regions, apis, tasks, gatherExc, mainPc, nCalls, providerVars,
                  sweep >>

----------------------------------------------------------------------------
(* ClientSession._request, several requests in flight on one event loop *)

\* a call of _request that has not run yet
NewRequest(upgrade) ==
  [ kind |-> "request", upgrade |-> upgrade, pc |-> "called", got |-> 0,
    target |-> << >> ]

RequestTasks == { i \in 1..Len(tasks) : tasks[i].kind = "request" }

\* the task of a region whose three provider calls were answered ok
DoneCreate(region, id) ==
  [ NewTask("create", API(NoneId, region)) EXCEPT
      !.id = id, !.pc = "done", !.last = "ok" ]

\* the state a successful __aenter__ leaves: the provider has handed the
\* ApiIds 1..n to the n tasks in the order it answered them
InitActive ==
  /\ regions \in RegionSets
  /\ \E ids \in [1..Len(regions) -> 1..Len(regions)] :
       /\ \A i, j \in 1..Len(regions) : i # j => ids[i] # ids[j]
       /\ tasks = [ k \in 1..Len(regions) |-> DoneCreate(regions[k], ids[k]) ]
  /\ apis = GatherResults(tasks)
  /\ apis_iter = cycle(apis)
  /\ gatherExc = 0
  /\ mainPc = "idle"
  /\ ret = Returned("aenter", TRUE, {})
  /\ nextId = Len(regions) + 1
  /\ delCalls = {}
  /\ handed = << >>
  /\ nCalls = 1
  /\ sweep = NoSweep

\* session.get(...) wrapped in a task, or awaited from another task
RouterCall(upgrade) ==
  /\ Cardinality(RequestTasks) < MaxInflight
  /\ tasks' = Append(tasks, NewRequest(upgrade))
  /\ UNCHANGED << rotatorVars, gatherExc, mainPc, ret, nCalls, providerVars,
                  handed, sweep >>

\* a cursor that moves only when no other request is being sent
RouterRun_lossy(i) ==
  /\ i \in RequestTasks
  /\ tasks[i].pc = "called"
  /\ \/ /\ tasks[i].upgrade
        /\ tasks' = [tasks EXCEPT ![i].pc = "sending", ![i].target = OriginalUrl]
        /\ UNCHANGED << apis_iter, handed >>
     \/ /\ ~tasks[i].upgrade
        /\ apis_iter.live
        /\ apis_iter' = IF \E j \in RequestTasks : tasks[j].pc = "sending"
                        THEN apis_iter ELSE cycle_advance(apis_iter)
        /\ handed' = Append(handed, cycle_value(apis_iter))
        /\ tasks' = [tasks EXCEPT ![i].pc = "sending",
                                  ![i].got = Len(handed) + 1,
                                  ![i].target = host(cycle_value(apis_iter))]
  /\ UNCHANGED << regions, apis, gatherExc, mainPc, ret, nCalls, providerVars,
                  sweep >>

\* lines 25-31, up to the await of line 26 or 33: no await in between, so the
\* event loop runs them as one step
RouterRun(i) ==
  /\ i \in RequestTasks
  /\ tasks[i].pc = "called"
  /\ \/ /\ tasks[i].upgrade
        /\ tasks' = [tasks EXCEPT ![i].pc = "sending", ![i].target = OriginalUrl]
        /\ UNCHANGED << apis_iter, handed >>
     \/ /\ ~tasks[i].upgrade
        /\ apis_iter.live
        /\ apis_iter' = cycle_advance(apis_iter)
        /\ handed' = Append(handed, cycle_value(apis_iter))
        /\ tasks' = [tasks EXCEPT ![i].pc = "sending",
                                  ![i].got = Len(handed) + 1,
                                  ![i].target = host(cycle_value(apis_iter))]
  /\ UNCHANGED << regions, apis, gatherExc, mainPc, ret, nCalls, providerVars,
                  sweep >>

\* lines 26 and 33: super()._request has answered
RouterAnswer(i) ==
  /\ i \in RequestTasks
  /\ tasks[i].pc = "sending"
  /\ tasks' = [tasks EXCEPT ![i].pc = "done"]
  /\ UNCHANGED << rotatorVars, gatherExc, mainPc, ret, nCalls, providerVars,
                  handed, sweep >>

----------------------------------------------------------------------------
(* The provider's get_apis, as one region's client sees it *)

\* the ApiId of the k-th gateway on page p of region number r
ApiIdOf(r, p, k) == ((r - 1) * MaxPages + (p - 1)) * MaxPageItems + k

ItemsOf(r, listing, p) ==
  [ k \in 1..Len(listing[p]) |->
      [ApiId |-> ApiIdOf(r, p, k), Name |-> listing[p][k]] ]

\* every gateway of the region, page after page
AllItems(r, listing) ==
  LET RECURSIVE upto(_)
      upto(p) == IF p = 0 THEN << >> ELSE upto(p - 1) \o ItemsOf(r, listing, p)
  IN  upto(Len(listing))

\* the answer to get_apis for page p: the key NextToken is there (as <<p + 1>>)
\* exactly when a page follows
Page(r, listing, p) ==
  [ Items |-> ItemsOf(r, listing, p),
    NextToken |-> IF p < Len(listing) THEN << p + 1 >> ELSE << >> ]

\* get_apis(MaxResults='100') and get_apis(MaxResults='100', NextToken=tok)
FirstCall == [has |-> FALSE, tok |-> NoneToken]
MoreCall(tok) == [has |-> TRUE, tok |-> tok]

----------------------------------------------------------------------------
(* IpRotator.clear_existing_apis and IpRotator._clear_existing_apis *)

\* line 116-117: on to the next region (`region` counts the regions entered),
\* or the end of the loop
RegionDone(sw) ==
  IF sw.region < Len(regions)
  THEN [sw EXCEPT !.pc = "enter"]
  ELSE [sw EXCEPT !.pc = "returned"]

\* lines 146-147: the k-th deletion, or the end of the loop
DeleteFrom(sw, k) ==
  IF k <= Len(sw.apis)
  THEN [sw EXCEPT !.pc = "delete", !.k = k,
                  !.reaper = NewTask("delete", sw.apis[k])]
  ELSE RegionDone(sw)

\* line 143
FilterByName(items) == SelectSeq(items, LAMBDA a : a.Name = ToolName)

\* line 144
AsAPIs(items, region) == [ k \in 1..Len(items) |-> API(items[k].ApiId, region) ]

\* lines 139-147, once a get_apis answer is in `res` and its Items in `apis`
AfterList(sw) ==
  IF sw.res.NextToken # << >>
  THEN [sw EXCEPT !.pc = "get_more"]
  ELSE DeleteFrom([sw EXCEPT !.apis = AsAPIs(FilterByName(sw.apis),
                                              regions[sw.region])], 1)

\* line 114-116
SweepCall ==
  /\ sweep.pc = "idle"
  /\ sweep' = [sweep EXCEPT !.pc = "enter"]
  /\ UNCHANGED << rotatorVars, loopVars, providerVars, handed >>

\* lines 127-135; the region holds whatever earlier runs left in it
SweepEnter(listing) ==
  /\ sweep.pc = "enter"
  /\ sweep' = [NoSweep EXCEPT !.pc = "get_apis", !.region = sweep.region + 1,
                              !.listing = listing]
  /\ UNCHANGED << rotatorVars, loopVars, providerVars, handed >>

\* lines 137-138
SweepGetApis(ans) ==
  /\ sweep.pc = "get_apis"
  /\ LET sw == [sweep EXCEPT !.listCalls = Append(@, FirstCall), !.last = ans] IN
       \/ /\ ans = "ok"
          /\ sweep' = AfterList([sw EXCEPT
                         !.res = Page(sw.region, sw.listing, 1),
                         !.apis = @ \o ItemsOf(sw.region, sw.listing, 1)])
       \/ /\ ans = "error"
          /\ sweep' = [sw EXCEPT !.pc = "raised"]
  /\ UNCHANGED << rotatorVars, loopVars, providerVars, handed >>

\* lines 140-141.  NextToken=None is no string: botocore's parameter
\* validation rejects the call; with validation switched off in the
\* configuration (lenient) the call goes out without a token.
SweepGetMore(ans, lenient) ==
  /\ sweep.pc = "get_more"
  /\ Len(sweep.listCalls) < MaxListCalls
  /\ LET tok == sweep.next_token
         sw == [sweep EXCEPT !.listCalls = Append(@, MoreCall(tok))]
         p == IF tok = NoneToken THEN 1 ELSE tok[1]
     IN
       \/ /\ tok = NoneToken
          /\ ~lenient
          /\ ans = "error"
          /\ sweep' = [sw EXCEPT !.pc = "raised", !.last = "ParamValidationError"]
       \/ /\ tok = NoneToken => lenient
          /\ ans = "ok"
          /\ sweep' = AfterList([sw EXCEPT
                         !.last = ans,
                         !.res = Page(sw.region, sw.listing, p),
                         !.apis = @ \o ItemsOf(sw.region, sw.listing, p)])
       \/ /\ tok = NoneToken => lenient
          /\ ans = "error"
          /\ sweep' = [sw EXCEPT !.pc = "raised", !.last = ans]
  /\ UNCHANGED << rotatorVars, loopVars, providerVars, handed >>

\* a sweep that goes on to the next record when a deletion fails
SweepDelete_continue(ans) ==
  /\ sweep.pc = "delete"
  /\ sweep.reaper.pc = "delete_api"
  /\ MayAnswer(sweep.reaper, ans)
  /\ LET r == ReaperCall(sweep.reaper, ans)
         sw == [sweep EXCEPT !.reaper = r, !.last = ans,
                             !.deleted = Append(@, sweep.reaper.id)]
     IN  sweep' = IF Finished(r) THEN DeleteFrom(sw, sw.k + 1) ELSE sw
  /\ UNCHANGED << rotatorVars, loopVars, providerVars, handed >>

\* line 147: one step of _delete_api for the k-th record
SweepDelete(ans) ==
  /\ sweep.pc = "delete"
  /\ sweep.reaper.pc = "delete_api"
  /\ MayAnswer(sweep.reaper, ans)
  /\ LET r == ReaperCall(sweep.reaper, ans)
         sw == [sweep EXCEPT !.reaper = r, !.last = ans,
                             !.deleted = Append(@, sweep.reaper.id)]
     IN  sweep' = IF r.pc = "done" THEN DeleteFrom(sw, sw.k + 1)
                  ELSE IF r.pc = "failed" THEN [sw EXCEPT !.pc = "raised"]
                  ELSE sw
  /\ UNCHANGED << rotatorVars, loopVars, providerVars, handed >>

SweepSleep ==
  /\ sweep.pc = "delete"
  /\ sweep.reaper.pc = "sleep"
  /\ sweep' = [sweep EXCEPT !.reaper = ReaperSleep(@)]
  /\ UNCHANGED << rotatorVars, loopVars, providerVars, handed >>

----------------------------------------------------------------------------

Next ==
  \/ Activate
  \/ AenterReturn
  \/ AenterRaise
  \/ \E i \in 1..Len(tasks) : \E ans \in CreateAnswers : CreateApi(i, ans)
  \/ \E i \in 1..Len(tasks) : \E ans \in StageAnswers : CreateStage(i, ans)
  \/ \E i \in 1..Len(tasks) : \E ans \in CreateAnswers : CreateDeployment(i, ans)
  \/ \E i \in 1..Len(tasks) : \E ans \in DeleteAnswers : DeleteApi(i, ans)
  \/ \E i \in 1..Len(tasks) : DeleteSleep(i)
  \/ Deactivate
  \/ AexitReturn
  \/ AexitRaise
  \/ \E upgrade \in BOOLEAN : Request(upgrade)

Spec == Init /\ [][Next]_vars

NextSweep ==
  \/ SweepCall
  \/ \E listing \in Listings : SweepEnter(listing)
  \/ \E ans \in ListAnswers : SweepGetApis(ans)
  \/ \E ans \in ListAnswers : \E lenient \in BOOLEAN : SweepGetMore(ans, lenient)
  \/ \E ans \in DeleteAnswers : SweepDelete(ans)
  \/ SweepSleep

SpecSweep == Init /\ [][NextSweep]_vars

\* one __aexit__ after another on an active manager
NextReaper ==
  \/ Deactivate
  \/ \E i \in 1..Len(tasks) : \E ans \in DeleteAnswers : DeleteApi(i, ans)
  \/ \E i \in 1..Len(tasks) : DeleteSleep(i)
  \/ AexitReturn
  \/ AexitRaise

\* the event loop runs every task that can run: a Reaper's delete_api call
\* is answered, and its sleep ends
FairReaper ==
  \A i \in 1..MaxRegions :
    /\ WF_vars(i \in 1..Len(tasks)
                 /\ \E ans \in DeleteAnswers : DeleteApi(i, ans))
    /\ WF_vars(i \in 1..Len(tasks) /\ DeleteSleep(i))

SpecReaper == InitActive /\ [][NextReaper]_vars /\ FairReaper

\* the schedule followed for a region list longer than MaxRegions (the
\* default list): the tasks get their answers one task after the other, in
\* creation order, up to the first that raises.  Shorter lists run under
\* every interleaving.
InTurn(i) ==
  \/ Len(regions) <= MaxRegions
  \/ \A j \in 1..(i - 1) : tasks[j].pc = "done"

\* construction, the first __aenter__ on the new object, and requests
NextCtor ==
  \/ Construct
  \/ ret.op = "init" /\ Activate
  \/ \E i \in 1..Len(tasks) : \E ans \in CreateAnswers :
       InTurn(i) /\ CreateApi(i, ans)
  \/ \E i \in 1..Len(tasks) : \E ans \in StageAnswers :
       InTurn(i) /\ CreateStage(i, ans)
  \/ \E i \in 1..Len(tasks) : \E ans \in CreateAnswers :
       InTurn(i) /\ CreateDeployment(i, ans)
  \/ AenterReturn
  \/ AenterRaise
  \/ \E upgrade \in BOOLEAN : Request(upgrade)

SpecCtor == InitNew /\ [][NextCtor]_vars

NextRouter ==
  \/ \E upgrade \in BOOLEAN : RouterCall(upgrade)
  \/ \E i \in 1..Len(tasks) : RouterRun(i)
  \/ \E i \in 1..Len(tasks) : RouterAnswer(i)

SpecRouter == InitActive /\ [][NextRouter]_vars

----------------------------------------------------------------------------
(* Properties *)

DeleteTasks == { i \in 1..Len(tasks) : tasks[i].kind = "delete" }

\* C1: when __aenter__ surfaces the error of a failed provisioning, a deletion
\* call has been issued for every endpoint whose provisioning had succeeded.
C1_PartialActivationCleanedUp ==
  (ret.op = "aenter" /\ ~ret.ok) =>
    \A i \in ret.succeeded : tasks[i].id \in delCalls

\* C2: __aexit__ has created one Reaper task per record of the pool, and when
\* it returns or raises, none of them is still running.
C2_DeactivateIsBarrier ==
  ret.op = "aexit" => (Len(tasks) = Len(apis) /\ ret.pending = {})

\* C3: after __aexit__ has returned or raised, the pool is empty and the
\* cursor is None.
C3_DeactivateClears ==
  ret.op = "aexit" => (apis = << >> /\ ~apis_iter.live)

\* C4: once every Reaper task of an __aexit__ has ended, the error __aexit__
\* surfaced covers every task that failed, not only the first.
C4_AllFailuresSurfaced ==
  (ret.op = "aexit" /\ Quiescent) =>
    ret.errs = { i \in DeleteTasks : tasks[i].pc = "failed" }

\* C5: a Reaper that was answered TooManyRequestsException N times and then
\* ok has ended in success after exactly N sleeps and N + 1 delete_api
\* calls, all with its record's ApiId; a Reaper ends in success no other way.
C5_RateLimitedRetries ==
  \A i \in DeleteTasks :
    LET t == tasks[i] IN
    (t.last = "ok" \/ t.pc = "done") =>
      /\ t.pc = "done"
      /\ t.last = "ok"
      /\ t.calls = t.limited + 1
      /\ t.sleeps = t.limited
      /\ t.called = {t.id}

C5_Witness ==
  \E i \in DeleteTasks :
    tasks[i].pc = "done" /\ tasks[i].limited >= 1 /\ tasks[i].sleeps >= 1

\* C6: a Reaper answered a non-rate-limit error has failed on that very call
\* (no call and no sleep after it), and every Reaper of the same __aexit__
\* ends as its own answers say: failed only on an error answer of its own,
\* done on an ok answer of its own.
C6_ErrorIsImmediateAndLocal ==
  \A i \in DeleteTasks :
    LET t == tasks[i] IN
    /\ t.last = "error" =>
         (t.pc = "failed" /\ t.calls = t.limited + 1 /\ t.sleeps = t.limited)
    /\ t.pc = "failed" => t.last = "error"
    /\ t.last = "ok" => t.pc = "done"
    /\ t.last \in {"none", "TooManyRequestsException"} => ~Finished(t)

C6_Witness ==
  /\ ret.op = "aexit"
  /\ ~ret.ok
  /\ \E i \in ret.errs : tasks[i].last = "error"
  /\ \E j \in ret.pending : tasks[j].pc = "done" /\ tasks[j].limited >= 1

\* C7: in every region the list calls follow the pagination: the j-th call
\* (j > 1) carries the token the (j - 1)-th answer returned, and once the
\* listing is over there has been one call per page and every gateway named
\* "Async IP Rotator" has been collected exactly once.
C7_PaginationFollowed ==
  /\ \A j \in 2..Len(sweep.listCalls) : sweep.listCalls[j] = MoreCall(<< j >>)
  /\ sweep.pc = "delete" =>
       /\ Len(sweep.listCalls) = Len(sweep.listing)
       /\ sweep.apis = AsAPIs(FilterByName(AllItems(sweep.region, sweep.listing)),
                              regions[sweep.region])

\* C8: delete_api is only ever called for gateways named "Async IP Rotator",
\* and when the sweep of a region is over without a provider error, it has
\* been called for every such gateway of the region.
C8_DeletesExactlyTheTools ==
  LET all == AllItems(sweep.region, sweep.listing)
      tools == { all[k].ApiId : k \in { m \in 1..Len(all) : all[m].Name = ToolName } }
      called == { sweep.deleted[k] : k \in 1..Len(sweep.deleted) }
  IN  /\ called \subseteq tools
      /\ (sweep.pc \in {"enter", "raised", "returned"} /\ sweep.last # "error") =>
           tools \subseteq called

\* C9: the records next() has returned since the cursor was built are the
\* pool's records in pool order, wrapping to the first after the last; after
\* k * n calls on a pool of n records each record has been returned k times.
C9_RoundRobin ==
  LET n == Len(apis) IN
  /\ \A j \in 1..Len(handed) : handed[j] = apis[((j - 1) % n) + 1]
  /\ \A k \in 1..MaxRequests :
       Len(handed) = k * n =>
         \A e \in 1..n :
           Cardinality({ j \in 1..Len(handed) : handed[j] = apis[e] }) = k

C9_Witness ==
  /\ Len(apis) >= 2
  /\ Len(handed) = 2 * Len(apis)
  /\ handed[Len(apis) + 1] = apis[1]

\* C10: after a successful __aenter__ the pool has one record per region, in
\* the order of self.regions, each holding the ApiId the provider returned
\* to the task of its region; regions and ApiIds are pairwise different.
C10_PoolMatchesRegions ==
  (ret.op = "aenter" /\ ret.ok) =>
    /\ Len(apis) = Len(regions)
    /\ \A i \in 1..Len(apis) :
         /\ apis[i].region = regions[i]
         /\ tasks[i].region = regions[i]
         /\ apis[i].id = tasks[i].id
         /\ apis[i].id # NoneId
    /\ \A i, j \in 1..Len(apis) :
         i # j => (apis[i].region # apis[j].region /\ apis[i].id # apis[j].id)

\* the second region's provisioning was answered before the first's
C10_Witness ==
  /\ ret.op = "aenter"
  /\ ret.ok
  /\ Len(apis) >= 2
  /\ apis[2].id < apis[1].id

\* C11: while the cursor is live (the manager is Active) no step starts the
\* fan-out of an __aenter__ and no step changes the pool: a second
\* activation is turned away with the first activation's records in place.
C11_ActivateWhileActiveRejected ==
  [][ apis_iter.live =>
        /\ ~(mainPc = "idle" /\ mainPc' = "aenter_wait")
        /\ apis' = apis ]_vars

\* C12: an __aexit__ on an empty pool starts no Reaper task, no delete_api
\* call is made for it, and it returns without an exception.
C12_EmptyDeactivateIsTrivial ==
  (apis = << >> /\ (mainPc = "aexit_wait" \/ ret.op = "aexit")) =>
    /\ tasks = << >>
    /\ gatherExc = 0
    /\ delCalls = {}
    /\ ret.op = "aexit" => (ret.ok /\ ret.errs = {} /\ ~apis_iter.live)

\* __aexit__ has returned on the pool a failed __aenter__ left empty
C12_Witness ==
  /\ ret.op = "aexit"
  /\ ret.ok
  /\ apis = << >>
  /\ nCalls = 2
  /\ nextId > 1

C14_NoLostCursorUpdate ==
  LET n == Len(apis)
      ran == { i \in RequestTasks : ~tasks[i].upgrade /\ tasks[i].pc # "called" }
  IN  /\ \A k \in 1..Len(handed) : handed[k] = apis[((k - 1) % n) + 1]
      /\ apis_iter.pos = Len(handed) % n
      /\ Cardinality(ran) = Len(handed)
      /\ \A i \in ran :
           /\ tasks[i].got \in 1..Len(handed)
           /\ tasks[i].target = host(handed[tasks[i].got])
      /\ \A i, j \in ran : i # j => tasks[i].got # tasks[j].got

\* two rotated requests are being sent at the same time, and the one called
\* later took its record first
C14_Witness ==
  \E i, j \in RequestTasks :
    /\ i < j
    /\ tasks[i].pc = "sending"
    /\ tasks[j].pc = "sending"
    /\ ~tasks[i].upgrade
    /\ ~tasks[j].upgrade
    /\ tasks[j].got >= 1
    /\ tasks[j].got < tasks[i].got

\* C15: a _create_api task answered ConflictException by create_stage goes on
\* to create_deployment with its ApiId, and one answered any other error
\* has raised; a task answered ok by create_deployment has returned its
\* record; a task that has raised makes no further call.
C15_StageConflictSwallowed ==
  [][ \A i \in 1..Len(tasks) :
        (nCalls' = nCalls /\ tasks[i].kind = "create") =>
          /\ (tasks[i].pc = "create_stage" /\ tasks'[i] # tasks[i]) =>
               /\ tasks'[i].last = "ConflictException" =>
                    (tasks'[i].pc = "create_deployment"
                       /\ tasks'[i].id = tasks[i].id)
               /\ tasks'[i].last = "error" => tasks'[i].pc = "failed"
               /\ tasks'[i].pc = "create_deployment" =>
                    tasks'[i].last \in {"ok", "ConflictException"}
          /\ (tasks[i].pc = "create_deployment" /\ tasks'[i] # tasks[i]
                /\ tasks'[i].last = "ok") =>
               (tasks'[i].pc = "done" /\ tasks'[i].id = tasks[i].id)
          /\ tasks[i].pc = "failed" => tasks'[i] = tasks[i] ]_vars

\* create_stage was answered ConflictException and the task is about to
\* call create_deployment
C15_Witness ==
  \E i \in 1..Len(tasks) :
    /\ tasks[i].kind = "create"
    /\ tasks[i].pc = "create_deployment"
    /\ tasks[i].last = "ConflictException"
    /\ tasks[i].id # NoneId

\* C16: a Reaper that has ended was last answered ok or a non-rate-limit
\* error, never TooManyRequestsException; and with a provider that stops
\* answering TooManyRequestsException at some point, every Reaper that was
\* started ends.
C16_ReaperEndsOnlyOnAnswer ==
  /\ [](\A i \in DeleteTasks :
          /\ Finished(tasks[i]) => tasks[i].last \in {"ok", "error"}
          /\ tasks[i].last = "TooManyRequestsException" =>
               tasks[i].pc \in {"sleep", "delete_api"})
  /\ \A i \in 1..MaxRegions :
       (i \in DeleteTasks /\ ~Finished(tasks[i]))
         ~> (i \in DeleteTasks /\ Finished(tasks[i]))

\* a Reaper raised the provider's error after it had been rate-limited as
\* often as the provider does it
C16_Witness ==
  \E i \in DeleteTasks :
    /\ tasks[i].pc = "failed"
    /\ tasks[i].last = "error"
    /\ tasks[i].limited = MaxRateLimited
    /\ tasks[i].sleeps = MaxRateLimited

\* C17: from the call of __aenter__ to its end, the pool and the cursor are
\* assigned only by the step on which __aenter__ returns with every
\* _create_api task of the call done; and as long as __aenter__ has not
\* returned, no record of its tasks is in the pool or under the cursor.
C17_FailedActivateLeavesFields ==
  [][ /\ (mainPc = "aenter_wait" \/ mainPc' = "aenter_wait") =>
           \/ (apis' = apis /\ apis_iter' = apis_iter)
           \/ /\ \A i \in 1..Len(tasks) : tasks[i].pc = "done"
              /\ ret'.op = "aenter"
              /\ ret'.ok
      /\ (mainPc = "aenter_wait" \/ (ret.op = "aenter" /\ ~ret.ok)) =>
           \A i \in 1..Len(tasks) :
             \A k \in 1..Len(apis) :
               /\ tasks[i].id # apis[k].id
               /\ apis_iter.live => tasks[i].id # apis_iter.items[k].id ]_vars

\* __aenter__ has raised on an active manager after one of its tasks had
\* returned a record: the pool and the cursor of the earlier activation stand
C17_Witness ==
  /\ ret.op = "aenter"
  /\ ~ret.ok
  /\ ret.succeeded # {}
  /\ apis # << >>
  /\ apis_iter.live
  /\ apis_iter.items = apis

\* C18: the sweep enters the regions one by one in the order of
\* self.regions, the next one only when every record of the one before has
\* been deleted; in a region every get_apis call comes before the first
\* delete_api call, the delete_api calls go record by record, each for a
\* record of that region and only once the one before is deleted; a call
\* answered an error ends the sweep, and after that no call is made.
C18_SweepSequentialStopsAtFailure ==
  [][ LET lists == Len(sweep.listCalls)
          dels == Len(sweep.deleted)
          lists2 == Len(sweep'.listCalls)
          dels2 == Len(sweep'.deleted)
      IN
      /\ sweep'.region \in {sweep.region, sweep.region + 1}
      /\ sweep'.region = sweep.region + 1 =>
           /\ sweep.pc = "enter"
           /\ sweep.region < Len(regions)
           /\ sweep.k = Len(sweep.apis)
           /\ sweep.k > 0 => sweep.reaper.pc = "done"
           /\ lists2 = 0
           /\ dels2 = 0
      /\ sweep'.region = sweep.region =>
           /\ lists2 \in {lists, lists + 1}
           /\ dels2 \in {dels, dels + 1}
           /\ lists2 + dels2 <= lists + dels + 1
           /\ lists2 = lists + 1 =>
                (sweep.pc \in {"get_apis", "get_more"} /\ dels = 0)
           /\ dels2 = dels + 1 =>
                /\ sweep.pc = "delete"
                /\ sweep.res.NextToken = << >>
                /\ sweep.k \in 1..Len(sweep.apis)
                /\ sweep'.deleted[dels2] = sweep.apis[sweep.k].id
                /\ sweep.apis[sweep.k].region = regions[sweep.region]
                /\ sweep'.k \in {sweep.k, sweep.k + 1}
                /\ sweep'.k = sweep.k + 1 => sweep'.reaper.last = "none"
           /\ sweep'.k # sweep.k =>
                (sweep.pc # "delete" \/ sweep'.last = "ok")
      /\ (sweep' # sweep /\ sweep'.last \in {"error", "ParamValidationError"}) =>
           sweep'.pc = "raised"
      /\ sweep.pc = "raised" => sweep' = sweep ]_vars

\* the sweep has ended on the error of the second record's delete_api call,
\* after the first record's deletion went through, with a region not entered
C18_Witness ==
  /\ sweep.pc = "raised"
  /\ sweep.last = "error"
  /\ sweep.region < Len(regions)
  /\ sweep.k = 2
  /\ sweep.k < Len(sweep.apis) + 1
  /\ Len(sweep.deleted) >= 2

\* C19: __init__ leaves a non-empty self.regions: the default list of nine
\* regions when the argument is None or an empty list, the argument itself
\* otherwise; an __aenter__ that returns leaves one record per region in the
\* pool, at least one, and a cursor whose next() returns a record of the
\* pool.
C19_RegionsNeverEmpty ==
  [][ /\ (mainPc = "new" /\ mainPc' # "new") =>
           /\ Len(regions') >= 1
           /\ (regions.none \/ regions.list = << >>) =>
                (regions' = DEFAULT_REGIONS /\ Len(regions') = 9)
           /\ (~regions.none /\ regions.list # << >>) => regions' = regions.list
      /\ (mainPc # "new" /\ ret'.op = "aenter" /\ ret'.ok) =>
           /\ Len(regions') >= 1
           /\ Len(apis') = Len(regions')
           /\ apis_iter'.live
           /\ apis_iter'.items = apis'
           /\ apis_iter'.pos + 1 \in 1..Len(apis')
      /\ (mainPc # "new" /\ Len(handed') = Len(handed) + 1) =>
           \E k \in 1..Len(apis) : handed'[Len(handed')] = apis[k] ]_vars

\* an object constructed without regions has been activated, and next() has
\* returned its second record
C19_Witness ==
  /\ mainPc = "idle"
  /\ regions = DEFAULT_REGIONS
  /\ Len(apis) = Len(DEFAULT_REGIONS)
  /\ ret.op = "request"
  /\ ret.ok
  /\ Len(handed) = 2
  /\ handed[2] = apis[2]

====
